---- MODULE Spec2Model ----
(***************************************************************************)
(* Translator_ADM1_ASM1 (watertap/unit_models/translator_adm1_asm1.py):    *)
(* a unit model that links an ADM1 inlet state block to an ASM1 outlet     *)
(* state block through equality constraints, and its initialize routine.   *)
(*                                                                         *)
(* Numbers.  Every outlet quantity and every right-hand side is an integer *)
(* count of 1/Unit, so that 1e-6, 0.06/14, 0.007, 0.08/14 and 0.06 and     *)
(* their products with whole inlet values are all exact.  Inlet values are *)
(* whole numbers (1 stands for 1.0).  N_I, N_aa and N_bac are counts of    *)
(* 1/NDen, i_ec is a count of 1/IDen.                                      *)
(***************************************************************************)
EXTENDS Integers, Sequences, FiniteSets

VARIABLES
    pc,              \* where the caller / initialize_build stands
    config,          \* blk.config: the accepted (or rejected) option values
    params,          \* blk.N_I, blk.N_aa, blk.N_bac, blk.i_ec (mutable Params)
    properties_in,   \* blk.properties_in[t][name]: inlet state values
    properties_out,  \* blk.properties_out[t][name]: outlet state values
    constraints,     \* the constraint indices build has declared (all active)
    in_fixed,        \* inlet state variables <<t, name>> that are fixed
    out_fixed,       \* outlet state variables <<t, name>> that are fixed
    args,            \* state_args_in / state_args_out of the running call
    flags,           \* what properties_in.initialize(hold_state=True) returned
    res,             \* termination condition of opt.solve, "none" before it
    calls,           \* collaborator calls made by the running initialize call
    log              \* what init_log received in the running initialize call

vars == <<pc, config, params, properties_in, properties_out, constraints,
          in_fixed, out_fixed, args, flags, res, calls, log>>

----------------------------------------------------------------------------
(* Bounds and scales *)

\* largest whole value the caller fixes an inlet quantity to
MaxConc == 1

NDen == 7 * 1000
IDen == 5 * 10
Unit == NDen * IDen * 20
Micro == Unit \div (1000 * 1000)

\* flowsheet().time
Time == {0, 1}

----------------------------------------------------------------------------
(* The two property packages' state variables *)

ScalarVars == {"flow_vol", "temperature", "pressure"}

ADM1_components ==
    {"S_su", "S_aa", "S_fa", "S_va", "S_bu", "S_pro", "S_ac", "S_h2",
     "S_ch4", "S_IC", "S_IN", "S_I", "X_c", "X_ch", "X_pr", "X_li", "X_su",
     "X_aa", "X_fa", "X_c4", "X_pro", "X_ac", "X_h2", "X_I"}

ASM1_components ==
    {"S_I", "S_S", "X_I", "X_S", "X_BH", "X_BA", "X_P", "S_O", "S_NO",
     "S_NH", "S_ND", "X_ND"}

InletStateVars == ScalarVars \cup ADM1_components

OutletStateVars == ScalarVars \cup {"alkalinity"} \cup ASM1_components

----------------------------------------------------------------------------
(* CONFIG: option values are Python objects, written as their repr *)

ConfigValues == {"False", "True", "None", "0", "1"}

\* Python's ==: bool is a subclass of int, False == 0 and True == 1
PyEq(a, b) ==
    \/ a = b
    \/ {a, b} = {"False", "0"}
    \/ {a, b} = {"True", "1"}

\* pyomo In(domain): the value is returned when `value in domain`
In(domain, value) == \E d \in domain : PyEq(value, d)

\* ConfigValue(domain=In([False])): None is stored without asking the domain
dynamic_valid(value) == value = "None" \/ In({"False"}, value)

has_holdup_valid(value) == value = "None" \/ In({"False"}, value)

CONFIG_default == [dynamic |-> "False", has_holdup |-> "False"]

----------------------------------------------------------------------------
(* build: parameters *)

N_I_init == (6 * NDen) \div (100 * 14)

N_aa_init == (7 * NDen) \div 1000

N_bac_init == (8 * NDen) \div (100 * 14)

i_ec_init == (6 * IDen) \div 100

BuiltParams ==
    [N_I |-> N_I_init, N_aa |-> N_aa_init, N_bac |-> N_bac_init,
     i_ec |-> i_ec_init]

\* values the caller may give a mutable Param
ParamValues ==
    [N_I |-> {N_I_init, (2 * NDen) \div 1000},
     N_aa |-> {N_aa_init, (8 * NDen) \div 1000},
     N_bac |-> {N_bac_init, N_I_init},
     i_ec |-> {i_ec_init, IDen}]

\* build_state_block: the packages' initial values (taken as zero)
BuiltStateIn == [t \in Time |-> [v \in InletStateVars |-> 0]]

BuiltStateOut == [t \in Time |-> [v \in OutletStateVars |-> 0]]

RECURSIVE SumOver(_, _)
SumOver(f, S) ==
    IF S = {} THEN 0
    ELSE LET x == CHOOSE y \in S : TRUE IN f[x] + SumOver(f, S \ {x})

\* a whole inlet value x, as a count of 1/Unit
Whole(x) == x * Unit

\* x * n for a whole inlet value x and a nitrogen content n (count of 1/NDen)
TimesN(x, n) == x * n * (Unit \div NDen)

\* x * n * i for a whole x, n a count of 1/NDen and i a count of 1/IDen
TimesNI(x, n, i) == x * n * i * (Unit \div (NDen * IDen))

----------------------------------------------------------------------------
(* build: the constraints.  A rule gives the outlet variable on its left,  *)
(* the value of its right-hand side and the inlet variables it reads.      *)

eq_flow_vol_rule(t) ==
    [lhs |-> "flow_vol", rhs |-> Whole(properties_in[t]["flow_vol"]),
     reads |-> {"flow_vol"}]

eq_temperature_rule(t) ==
    [lhs |-> "temperature", rhs |-> Whole(properties_in[t]["temperature"]),
     reads |-> {"temperature"}]

\* slip: the pressure equality reads the inlet temperature
eq_pressure_rule_slip(t) ==
    [lhs |-> "pressure", rhs |-> Whole(properties_in[t]["temperature"]),
     reads |-> {"temperature"}]

eq_pressure_rule(t) ==
    [lhs |-> "pressure", rhs |-> Whole(properties_in[t]["pressure"]),
     reads |-> {"pressure"}]

eq_SI_conc(t) ==
    [lhs |-> "S_I", rhs |-> Whole(properties_in[t]["S_I"]), reads |-> {"S_I"}]

eq_XI_conc(t) ==
    [lhs |-> "X_I", rhs |-> Whole(properties_in[t]["X_I"]), reads |-> {"X_I"}]

\* slip: dissolved hydrogen is lumped in place of acetate
readily_biodegradable_slip ==
    {"S_su", "S_aa", "S_fa", "S_va", "S_bu", "S_pro", "S_h2"}

readily_biodegradable ==
    {"S_su", "S_aa", "S_fa", "S_va", "S_bu", "S_pro", "S_ac"}

slowly_biodegradable ==
    {"X_c", "X_ch", "X_pr", "X_li", "X_su", "X_aa", "X_fa", "X_c4", "X_pro",
     "X_ac", "X_h2"}

eq_SS_conc(t) ==
    [lhs |-> "S_S",
     rhs |-> Whole(SumOver(properties_in[t], readily_biodegradable)),
     reads |-> readily_biodegradable]

eq_XS_conc(t) ==
    [lhs |-> "X_S",
     rhs |-> Whole(SumOver(properties_in[t], slowly_biodegradable)),
     reads |-> slowly_biodegradable]

eq_Snh_conc(t) ==
    [lhs |-> "S_NH", rhs |-> Whole(properties_in[t]["S_IN"]),
     reads |-> {"S_IN"}]

\* slip: the second term takes the bacterial nitrogen content
eq_Snd_conc_slip(t) ==
    [lhs |-> "S_ND",
     rhs |-> TimesN(properties_in[t]["S_I"], params["N_I"])
             + TimesN(properties_in[t]["S_I"], params["N_bac"]),
     reads |-> {"S_I"}]

eq_Snd_conc(t) ==
    [lhs |-> "S_ND",
     rhs |-> TimesN(properties_in[t]["S_I"], params["N_I"])
             + TimesN(properties_in[t]["S_I"], params["N_aa"]),
     reads |-> {"S_I"}]

\* slip: the i_ec correction of the X_I nitrogen is left out
eq_Xnd_conc_uncorrected(t) ==
    [lhs |-> "X_ND",
     rhs |-> TimesN(properties_in[t]["X_su"] + properties_in[t]["X_aa"]
                    + properties_in[t]["X_fa"] + properties_in[t]["X_c4"]
                    + properties_in[t]["X_pro"] + properties_in[t]["X_ac"]
                    + properties_in[t]["X_h2"], params["N_bac"])
             + TimesN(properties_in[t]["X_I"], params["N_I"])
             + TimesN(properties_in[t]["X_c"], params["N_I"])
             + TimesN(properties_in[t]["X_pr"], params["N_aa"]),
     reads |-> {"X_su", "X_aa", "X_fa", "X_c4", "X_pro", "X_ac", "X_h2",
                "X_I", "X_c", "X_pr"}]

eq_Xnd_conc(t) ==
    [lhs |-> "X_ND",
     rhs |-> TimesN(properties_in[t]["X_su"] + properties_in[t]["X_aa"]
                    + properties_in[t]["X_fa"] + properties_in[t]["X_c4"]
                    + properties_in[t]["X_pro"] + properties_in[t]["X_ac"]
                    + properties_in[t]["X_h2"], params["N_bac"])
             + TimesN(properties_in[t]["X_I"], params["N_I"])
             + TimesN(properties_in[t]["X_c"], params["N_I"])
             + TimesN(properties_in[t]["X_pr"], params["N_aa"])
             - TimesNI(properties_in[t]["X_I"], params["N_I"], params["i_ec"]),
     reads |-> {"X_su", "X_aa", "X_fa", "X_c4", "X_pro", "X_ac", "X_h2",
                "X_I", "X_c", "X_pr"}]

return_Salk(t) ==
    [lhs |-> "alkalinity", rhs |-> Whole(properties_in[t]["S_IC"]),
     reads |-> {"S_IC"}]

\* slip: nitrate is left out of the list
zero_flow_components_short == {"X_BH", "X_BA", "X_P", "S_O"}

zero_flow_components == {"X_BH", "X_BA", "X_P", "S_O", "S_NO"}

\* slip: the floor is replaced by a true zero
return_zero_flow_comp_zero(t, i) == [lhs |-> i, rhs |-> 0, reads |-> {}]

return_zero_flow_comp(t, i) == [lhs |-> i, rhs |-> Micro, reads |-> {}]

\* the constraints indexed by time alone
TimeRules ==
    {"eq_flow_vol_rule", "eq_temperature_rule", "eq_pressure_rule",
     "eq_SI_conc", "eq_XI_conc", "eq_SS_conc", "eq_XS_conc", "eq_Snh_conc",
     "eq_Snd_conc", "eq_Xnd_conc", "return_Salk"}

\* every constraint index build declares; i is "" for a rule indexed by time
BuiltConstraints ==
    {[name |-> n, t |-> t, i |-> ""] : n \in TimeRules, t \in Time}
    \cup {[name |-> "return_zero_flow_comp", t |-> t, i |-> i] :
            t \in Time, i \in zero_flow_components}

Rule(c) ==
    CASE c.name = "eq_flow_vol_rule" -> eq_flow_vol_rule(c.t)
      [] c.name = "eq_temperature_rule" -> eq_temperature_rule(c.t)
      [] c.name = "eq_pressure_rule" -> eq_pressure_rule(c.t)
      [] c.name = "eq_SI_conc" -> eq_SI_conc(c.t)
      [] c.name = "eq_XI_conc" -> eq_XI_conc(c.t)
      [] c.name = "eq_SS_conc" -> eq_SS_conc(c.t)
      [] c.name = "eq_XS_conc" -> eq_XS_conc(c.t)
      [] c.name = "eq_Snh_conc" -> eq_Snh_conc(c.t)
      [] c.name = "eq_Snd_conc" -> eq_Snd_conc(c.t)
      [] c.name = "eq_Xnd_conc" -> eq_Xnd_conc(c.t)
      [] c.name = "return_Salk" -> return_Salk(c.t)
      [] c.name = "return_zero_flow_comp" -> return_zero_flow_comp(c.t, c.i)

\* the constraint c holds of the current inlet, outlet and parameter values
Holds(c) == properties_out[c.t][Rule(c).lhs] = Rule(c).rhs

\* the state satisfies every declared constraint
ConstraintsHold == constraints # {} /\ \A c \in constraints : Holds(c)

----------------------------------------------------------------------------
(* degrees_of_freedom(blk): the unfixed variables that appear in an active *)
(* equality constraint, less the number of active equality constraints     *)

VariablesIn(c) ==
    {<<"out", c.t, Rule(c).lhs>>} \cup {<<"in", c.t, v>> : v \in Rule(c).reads}

IsFixed(x) ==
    \/ x[1] = "in" /\ <<x[2], x[3]>> \in in_fixed
    \/ x[1] = "out" /\ <<x[2], x[3]>> \in out_fixed

degrees_of_freedom ==
    Cardinality({x \in UNION {VariablesIn(c) : c \in constraints} :
                    ~IsFixed(x)})
    - Cardinality(constraints)

AllInlet == Time \X InletStateVars

AllOutlet == Time \X OutletStateVars

----------------------------------------------------------------------------
(* Construction: the CONFIG block validates the options, then build runs   *)

NoArgs == [in |-> "None", out |-> "None"]

\* nothing of the block exists before its options are accepted
Unconstructed ==
    /\ pc = "new"
    /\ config = <<>>
    /\ params = <<>>
    /\ properties_in = <<>>
    /\ properties_out = <<>>
    /\ constraints = {}
    /\ in_fixed = {}
    /\ out_fixed = {}
    /\ args = NoArgs
    /\ flags = {}
    /\ res = "none"
    /\ calls = <<>>
    /\ log = <<>>

\* Translator_ADM1_ASM1(dynamic=d, has_holdup=h): a rejected value raises
\* before build is reached
Configure(d, h) ==
    /\ pc = "new"
    /\ config' = [dynamic |-> d, has_holdup |-> h]
    /\ pc' = IF dynamic_valid(d) /\ has_holdup_valid(h)
             THEN "configured" ELSE "config_error"
    /\ UNCHANGED <<params, properties_in, properties_out, constraints,
                   in_fixed, out_fixed, args, flags, res, calls, log>>

Build ==
    /\ pc = "configured"
    /\ params' = BuiltParams
    /\ properties_in' = BuiltStateIn
    /\ properties_out' = BuiltStateOut
    /\ constraints' = BuiltConstraints
    /\ pc' = "setup"
    /\ UNCHANGED <<config, in_fixed, out_fixed, args, flags, res, calls, log>>

----------------------------------------------------------------------------
(* What the caller does to the built block before it calls initialize     *)

\* the inlet values the caller fixes: at time 0 the one quantity v is c and
\* the others are 0, at the other times v is 0 and the others are c
InletProfile(v, c) ==
    [t \in Time |->
        [w \in InletStateVars |-> IF (w = v) = (t = 0) THEN c ELSE 0]]

\* inlet.<each variable>.fix(value)
FixInlet(v, c) ==
    /\ pc = "setup"
    /\ properties_in' = InletProfile(v, c)
    /\ in_fixed' = AllInlet
    /\ UNCHANGED <<pc, config, params, properties_out, constraints, out_fixed,
                   args, flags, res, calls, log>>

\* blk.<p>.set_value(x) on a mutable Param
SetParam(p, x) ==
    /\ pc = "setup"
    /\ params[p] # x
    /\ params' = [params EXCEPT ![p] = x]
    /\ UNCHANGED <<pc, config, properties_in, properties_out, constraints,
                   in_fixed, out_fixed, args, flags, res, calls, log>>

\* outlet.fix(): every outlet state variable is fixed at its current value
FixOutlet ==
    /\ pc = "setup"
    /\ out_fixed = {}
    /\ out_fixed' = AllOutlet
    /\ UNCHANGED <<pc, config, params, properties_in, properties_out,
                   constraints, in_fixed, args, flags, res, calls, log>>

\* outlet.unfix()
UnfixOutlet ==
    /\ pc = "setup"
    /\ out_fixed # {}
    /\ out_fixed' = {}
    /\ UNCHANGED <<pc, config, params, properties_in, properties_out,
                   constraints, in_fixed, args, flags, res, calls, log>>

----------------------------------------------------------------------------
(* initialize_build *)

ArgChoices == {"None", "guess"}

\* the initial guess a state_args dictionary carries
GuessIn == 1

GuessOut == Unit

\* a state block's initialize: an unfixed state variable takes the value
\* state_args gives it, a fixed one keeps its value
WithGuess(state, fixed, arg, guess) ==
    [t \in Time |->
        [v \in DOMAIN state[t] |->
            IF arg = "None" \/ <<t, v>> \in fixed THEN state[t][v]
            ELSE guess]]

SolverResults == {"optimal", "infeasible", "maxIterations"}

\* the one point that satisfies every constraint, the inlet being held
Solution ==
    [t \in Time |->
        [v \in OutletStateVars |->
            LET cs == {c \in constraints : c.t = t /\ Rule(c).lhs = v}
            IN  IF cs = {} THEN properties_out[t][v]
                ELSE Rule(CHOOSE c \in cs : TRUE).rhs]]

\* entry: the logger and the solver object are created
CallInitialize(a_in, a_out) ==
    /\ pc \in {"setup", "returned"}
    /\ args' = [in |-> a_in, out |-> a_out]
    /\ flags' = {}
    /\ res' = "none"
    /\ calls' = <<>>
    /\ log' = <<>>
    /\ pc' = "init_in"
    /\ UNCHANGED <<config, params, properties_in, properties_out, constraints,
                   in_fixed, out_fixed>>

\* flags = blk.properties_in.initialize(state_args_in, hold_state=True)
InitializeInlet ==
    /\ pc = "init_in"
    /\ properties_in' = WithGuess(properties_in, in_fixed, args.in, GuessIn)
    /\ flags' = in_fixed
    /\ in_fixed' = AllInlet
    /\ calls' = Append(calls, "properties_in.initialize")
    /\ pc' = "init_out"
    /\ UNCHANGED <<config, params, properties_out, constraints, out_fixed,
                   args, res, log>>

\* blk.properties_out.initialize(state_args_out)
InitializeOutlet ==
    /\ pc = "init_out"
    /\ properties_out' = WithGuess(properties_out, out_fixed, args.out, GuessOut)
    /\ calls' = Append(calls, "properties_out.initialize")
    /\ pc' = "check_dof"
    /\ UNCHANGED <<config, params, properties_in, constraints, in_fixed,
                   out_fixed, args, flags, res, log>>

\* slip: the solver is invoked whatever the degrees of freedom are
SolveBranch_unguarded(r, converged) ==
    /\ pc = "check_dof"
    /\ r = "optimal" => converged
    /\ res' = r
    /\ properties_out' = IF converged THEN Solution ELSE properties_out
    /\ calls' = Append(calls, "opt.solve")
    /\ log' = Append(log, [level |-> "info", condition |-> r])
    /\ pc' = "release"
    /\ UNCHANGED <<config, params, properties_in, constraints, in_fixed,
                   out_fixed, args, flags>>

\* slip: a solve that does not end optimal raises, and the routine is left
SolveBranch_raising(r, converged) ==
    /\ pc = "check_dof"
    /\ degrees_of_freedom = 0
    /\ r = "optimal" => converged
    /\ res' = r
    /\ properties_out' = IF converged THEN Solution ELSE properties_out
    /\ calls' = Append(calls, "opt.solve")
    /\ log' = IF r = "optimal"
              THEN Append(log, [level |-> "info", condition |-> r]) ELSE log
    /\ pc' = IF r = "optimal" THEN "release" ELSE "raised"
    /\ UNCHANGED <<config, params, properties_in, constraints, in_fixed,
                   out_fixed, args, flags>>

\* slip: a solve that does not end optimal is tried again
SolveBranch_retrying(r, converged) ==
    /\ pc = "check_dof"
    /\ degrees_of_freedom = 0
    /\ r = "optimal" => converged
    /\ res' = r
    /\ properties_out' = IF converged THEN Solution ELSE properties_out
    /\ calls' = IF res = "none" THEN Append(calls, "opt.solve") ELSE calls
    /\ log' = <<[level |-> "info", condition |-> r]>>
    /\ pc' = IF r = "optimal" THEN "release" ELSE "check_dof"
    /\ UNCHANGED <<config, params, properties_in, constraints, in_fixed,
                   out_fixed, args, flags>>

\* degrees_of_freedom(blk) == 0: res = opt.solve(blk), then init_log.info.
\* A solve that ends optimal leaves the solution; any other ending leaves
\* either the point it started from or the solution.
SolveBranch(r, converged) ==
    /\ pc = "check_dof"
    /\ degrees_of_freedom = 0
    /\ r = "optimal" => converged
    /\ res' = r
    /\ properties_out' = IF converged THEN Solution ELSE properties_out
    /\ calls' = Append(calls, "opt.solve")
    /\ log' = Append(log, [level |-> "info", condition |-> r])
    /\ pc' = "release"
    /\ UNCHANGED <<config, params, properties_in, constraints, in_fixed,
                   out_fixed, args, flags>>

\* degrees_of_freedom(blk) != 0: init_log.warning
WarnBranch ==
    /\ pc = "check_dof"
    /\ degrees_of_freedom # 0
    /\ log' = Append(log, [level |-> "warning", condition |-> "none"])
    /\ pc' = "release"
    /\ UNCHANGED <<config, params, properties_in, properties_out, constraints,
                   in_fixed, out_fixed, args, flags, res, calls>>

\* blk.properties_in.release_state(flags): what was fixed before stays fixed
ReleaseState ==
    /\ pc = "release"
    /\ in_fixed' = flags
    /\ calls' = Append(calls, "properties_in.release_state")
    /\ pc' = "returned"
    /\ UNCHANGED <<config, params, properties_in, properties_out, constraints,
                   out_fixed, args, flags, res, log>>

InitializeStep ==
    \/ InitializeInlet
    \/ InitializeOutlet
    \/ \E r \in SolverResults, converged \in BOOLEAN : SolveBranch(r, converged)
    \/ WarnBranch
    \/ ReleaseState

----------------------------------------------------------------------------
(* Specifications *)

\* the block as build leaves it under the default options
Init ==
    /\ pc = "setup"
    /\ config = CONFIG_default
    /\ params = BuiltParams
    /\ properties_in = BuiltStateIn
    /\ properties_out = BuiltStateOut
    /\ constraints = BuiltConstraints
    /\ in_fixed = {}
    /\ out_fixed = {}
    /\ args = NoArgs
    /\ flags = {}
    /\ res = "none"
    /\ calls = <<>>
    /\ log = <<>>

Next ==
    \/ \E v \in InletStateVars, c \in 1..MaxConc : FixInlet(v, c)
    \/ \E p \in DOMAIN ParamValues : \E x \in ParamValues[p] : SetParam(p, x)
    \/ FixOutlet
    \/ UnfixOutlet
    \/ \E a_in \in ArgChoices, a_out \in ArgChoices : CallInitialize(a_in, a_out)
    \/ InitializeStep

Spec == Init /\ [][Next]_vars

\* the same caller with the parameters left as built
NextCall ==
    \/ \E v \in InletStateVars, c \in 1..MaxConc : FixInlet(v, c)
    \/ FixOutlet
    \/ UnfixOutlet
    \/ \E a_in \in ArgChoices, a_out \in ArgChoices : CallInitialize(a_in, a_out)
    \/ InitializeStep

\* a call of initialize_build runs to its end: it is synchronous and nothing
\* suspends it
FairSpec == Init /\ [][NextCall]_vars /\ WF_vars(InitializeStep)

\* construction from the options on, then the caller's first step
NextConfig ==
    \/ \E d \in ConfigValues, h \in ConfigValues : Configure(d, h)
    \/ Build
    \/ \E v \in InletStateVars, c \in 1..MaxConc : FixInlet(v, c)

SpecConfig == Unconstructed /\ [][NextConfig]_vars

----------------------------------------------------------------------------
(* Properties *)

InCalls == <<"properties_in.initialize", "properties_out.initialize">>

SolvedCalls == Append(InCalls, "opt.solve")

Released(cs) == Append(cs, "properties_in.release_state")

\* x, a count of 1/Unit, rounded to six decimal places (a count of 1e-6)
Round6(x) == (2 * x + Micro) \div (2 * Micro)

\* C1: wherever the constraints hold, at every time outlet S_S is the sum
\* of the inlet S_su, S_aa, S_fa, S_va, S_bu, S_pro, S_ac and outlet X_S is
\* the sum of the inlet X_c, X_ch, X_pr, X_li, X_su, X_aa, X_fa, X_c4,
\* X_pro, X_ac, X_h2, each counted once and nothing else counted.
LumpedSums ==
    ConstraintsHold =>
        \A t \in Time :
            LET in == properties_in[t] IN
            /\ properties_out[t]["S_S"] =
                 Whole(in["S_su"] + in["S_aa"] + in["S_fa"] + in["S_va"]
                       + in["S_bu"] + in["S_pro"] + in["S_ac"])
            /\ properties_out[t]["X_S"] =
                 Whole(in["X_c"] + in["X_ch"] + in["X_pr"] + in["X_li"]
                       + in["X_su"] + in["X_aa"] + in["X_fa"] + in["X_c4"]
                       + in["X_pro"] + in["X_ac"] + in["X_h2"])

\* a solved state in which seven and eleven inlet components add up
LumpedSumsWitness ==
    /\ pc = "returned"
    /\ res = "optimal"
    /\ ConstraintsHold
    /\ properties_out[1]["S_S"] = Whole(7)
    /\ properties_out[1]["X_S"] = Whole(11)
    /\ properties_out[0]["S_S"] = 0

\* C2: wherever the constraints hold, at every time outlet S_ND is inlet S_I
\* times (N_I + N_aa); with N_I = 0.06/14, N_aa = 0.007 and inlet S_I = 1.0
\* it is 0.011286 to six decimal places.
SndBalance ==
    ConstraintsHold =>
        \A t \in Time :
            /\ properties_out[t]["S_ND"] =
                 TimesN(properties_in[t]["S_I"], params["N_I"] + params["N_aa"])
            /\ ( /\ params["N_I"] * 14 * 100 = 6 * NDen
                 /\ params["N_aa"] * 1000 = 7 * NDen
                 /\ properties_in[t]["S_I"] = 1 )
               => Round6(properties_out[t]["S_ND"]) = 11286

\* a solved state with the default parameters and inlet S_I = 1.0 at time 0,
\* while the other inlet quantities differ between the two times
SndBalanceWitness ==
    /\ pc = "returned"
    /\ ConstraintsHold
    /\ params = BuiltParams
    /\ properties_in[0]["S_I"] = 1
    /\ properties_in[1]["S_I"] = 0
    /\ properties_in[1]["X_I"] = 1
    /\ Round6(properties_out[0]["S_ND"]) = 11286
    /\ properties_out[1]["S_ND"] = 0

\* C3: wherever the constraints hold, at every time each of outlet X_BH,
\* X_BA, X_P, S_O, S_NO is 1e-6, not zero, whatever the inlet values are.
ZeroFlowFloor ==
    ConstraintsHold =>
        \A t \in Time : \A i \in {"X_BH", "X_BA", "X_P", "S_O", "S_NO"} :
            /\ properties_out[t][i] * 1000 * 1000 = Unit
            /\ properties_out[t][i] # 0

\* a solved state whose inlet values are not all zero
ZeroFlowFloorWitness ==
    /\ pc = "returned"
    /\ ConstraintsHold
    /\ \E t \in Time : \E v \in InletStateVars : properties_in[t][v] = MaxConc
    /\ properties_out[0]["S_NO"] = Micro

\* C4: once built, with every inlet state variable fixed and no outlet
\* variable fixed, the degrees of freedom are zero, and at each time every
\* outlet state variable (flow_vol, temperature, pressure, alkalinity and the
\* twelve ASM1 concentrations) is the left-hand side of exactly one declared
\* constraint.
ZeroDegreesOfFreedom ==
    (constraints # {} /\ in_fixed = AllInlet /\ out_fixed = {}) =>
        /\ degrees_of_freedom = 0
        /\ \A t \in Time : \A v \in OutletStateVars :
              Cardinality({c \in constraints :
                              c.t = t /\ Rule(c).lhs = v}) = 1
        /\ \A c \in constraints : Rule(c).lhs \in OutletStateVars

\* the built block before initialize, its inlet fixed by the caller
ZeroDegreesOfFreedomWitness ==
    /\ pc = "setup"
    /\ in_fixed = AllInlet
    /\ out_fixed = {}
    /\ degrees_of_freedom = 0
    /\ Cardinality(constraints) = Cardinality(AllOutlet)

\* C5: a call of initialize initializes the inlet block and holds it, then
\* initializes the outlet block, then solves once if and only if the
\* degrees of freedom are zero (otherwise it logs the warning and does not
\* solve), and last releases the inlet with the flags of the first step.
InitializeOrder ==
    /\ pc = "init_in" => calls = <<>> /\ log = <<>> /\ res = "none"
    /\ pc = "init_out" =>
          /\ calls = <<"properties_in.initialize">>
          /\ in_fixed = AllInlet
          /\ log = <<>> /\ res = "none"
    /\ pc = "check_dof" =>
          /\ calls = InCalls
          /\ in_fixed = AllInlet
          /\ log = <<>> /\ res = "none"
    /\ pc = "release" =>
          /\ in_fixed = AllInlet
          /\ \/ /\ degrees_of_freedom = 0
                /\ calls = SolvedCalls
                /\ res \in SolverResults
                /\ log = <<[level |-> "info", condition |-> res]>>
             \/ /\ degrees_of_freedom # 0
                /\ calls = InCalls
                /\ res = "none"
                /\ log = <<[level |-> "warning", condition |-> "none"]>>
    /\ pc = "returned" =>
          /\ in_fixed = flags
          /\ \/ /\ calls = Released(SolvedCalls)
                /\ res \in SolverResults
                /\ log = <<[level |-> "info", condition |-> res]>>
             \/ /\ calls = Released(InCalls)
                /\ res = "none"
                /\ log = <<[level |-> "warning", condition |-> "none"]>>

\* a call that took the warning branch and released an inlet that was free
InitializeOrderWitness ==
    /\ pc = "returned"
    /\ calls = Released(InCalls)
    /\ log = <<[level |-> "warning", condition |-> "none"]>>
    /\ flags = {}
    /\ in_fixed = {}

\* C6: after a solve that did not end optimal the routine goes on: it has
\* solved once, logged that status, and releases the inlet and returns.
FailedSolveIsSoft ==
    res \in SolverResults \ {"optimal"} =>
        /\ pc \in {"release", "returned"}
        /\ Len(SelectSeq(calls, LAMBDA c : c = "opt.solve")) = 1
        /\ log = <<[level |-> "info", condition |-> res]>>
        /\ pc = "returned" =>
              /\ calls = Released(SolvedCalls)
              /\ in_fixed = flags

\* a call that returned after an infeasible solve, the inlet released
FailedSolveIsSoftWitness ==
    /\ pc = "returned"
    /\ res = "infeasible"
    /\ ~ConstraintsHold
    /\ flags = {}
    /\ in_fixed = {}

\* C7: a dynamic or has_holdup other than False is rejected before anything
\* is created, and the defaults are accepted.
RejectsAllButFalse ==
    pc # "new" =>
        /\ (config.dynamic # "False" \/ config.has_holdup # "False") =>
              /\ pc = "config_error"
              /\ params = <<>> /\ properties_in = <<>>
              /\ properties_out = <<>> /\ constraints = {}
        /\ config = CONFIG_default => pc # "config_error"

\* C8: wherever the constraints hold, at every time outlet flow_vol,
\* temperature, pressure, S_I and X_I equal the inlet's, whatever the other
\* inlet quantities and the parameters are.
PassThrough ==
    ConstraintsHold =>
        \A t \in Time :
            \A v \in {"flow_vol", "temperature", "pressure", "S_I", "X_I"} :
                properties_out[t][v] = Whole(properties_in[t][v])

\* a solved state with changed parameters, inlet temperature and pressure apart
PassThroughWitness ==
    /\ pc = "returned"
    /\ ConstraintsHold
    /\ params["N_I"] # N_I_init
    /\ params["i_ec"] # i_ec_init
    /\ properties_in[0]["temperature"] = 1
    /\ properties_in[0]["pressure"] = 0
    /\ properties_out[0]["temperature"] = Unit

\* C9 as stated: with the inlet fully specified and no outlet variable
\* fixed, a call of initialize ends with an optimal solver status.
InitializeEndsOptimal ==
    (pc = "returned" /\ flags = AllInlet /\ out_fixed = {}) => res = "optimal"

\* C9 amended: every call of initialize ends; with the inlet fully specified
\* and no outlet variable fixed it ends having solved once, with the status
\* the solver gave, and the constraints hold if that status is optimal.
InitializeEnds ==
    /\ [](( pc = "returned" /\ flags = AllInlet /\ out_fixed = {} ) =>
            /\ calls = Released(SolvedCalls)
            /\ res \in SolverResults
            /\ res = "optimal" => ConstraintsHold)
    /\ (pc = "init_in") ~> (pc = "returned")

\* a call on a fully specified inlet that ended optimal
InitializeEndsWitness ==
    /\ pc = "returned"
    /\ flags = AllInlet
    /\ out_fixed = {}
    /\ res = "optimal"
    /\ ConstraintsHold
    /\ args = [in |-> "guess", out |-> "guess"]

\* C10: wherever the constraints hold, at every time outlet X_ND is
\* N_bac*(X_su+X_aa+X_fa+X_c4+X_pro+X_ac+X_h2) + N_I*X_c + N_aa*X_pr plus
\* inlet X_I weighted by N_I*(1 - i_ec).
XndBalance ==
    ConstraintsHold =>
        \A t \in Time :
            LET in == properties_in[t] IN
            properties_out[t]["X_ND"] =
                TimesN(in["X_su"] + in["X_aa"] + in["X_fa"] + in["X_c4"]
                       + in["X_pro"] + in["X_ac"] + in["X_h2"], params["N_bac"])
                + TimesN(in["X_c"], params["N_I"])
                + TimesN(in["X_pr"], params["N_aa"])
                + TimesNI(in["X_I"], params["N_I"], IDen - params["i_ec"])

\* a solved state in which only inlet X_I carries nitrogen at time 0 and
\* every other term does at time 1
XndBalanceWitness ==
    /\ pc = "returned"
    /\ ConstraintsHold
    /\ params = BuiltParams
    /\ properties_in[0]["X_I"] = 1
    /\ properties_in[1]["X_c"] = 1
    /\ properties_out[0]["X_ND"] = TimesNI(1, N_I_init, IDen - i_ec_init)
    /\ properties_out[1]["X_ND"] > properties_out[0]["X_ND"]

====
